---- MODULE Spec2Model ----
(***************************************************************************)
(* Workflow/Job state machine of the WorkflowOrchestrator                  *)
(* (src/config/redis.js, class WorkflowOrchestrator) over the tables of    *)
(* src/src/config/database.js and the Bull job queue.                      *)
(*                                                                         *)
(* Every `await` of the orchestrator is one step of the model: between two *)
(* awaits of one invocation, other invocations (queue workers, the API     *)
(* caller) may run.                                                        *)
(***************************************************************************)
EXTENDS Integers, Sequences, FiniteSets, TLC

\* ------------------------------------------------------------------ bounds

\* Workflows the caller creates in one behaviour, and the rows of table jobs
\* a createWorkflow or queueWorkflow call may fill up to.
MaxWorkflows == 1
MaxJobs == 20
\* The same two in the behaviours of SpecLive, where nothing fails.
MaxWorkflowsLive == 2
MaxJobsLive == 11
\* Concurrent processJob invocations (consumer workers of the queue).
NumWorkers == 2
\* Rejected store queries / enqueues injected in one behaviour.
MaxFaults == 2
\* Dispatch messages the queue delivers a second time in one behaviour.
MaxRedeliveries == 1
\* executeNode rejections in one behaviour.
MaxStepErrors == 1
\* Direct queueWorkflow calls (beyond the one inside createWorkflow).
MaxRequeues == 1
\* Workflows and job rows in the behaviours of SpecStatus and SpecAbsent.
MaxWorkflowsCalls == 1
MaxJobsCalls == 10
\* Health checks the monitor runs in one behaviour, and the workflows and
\* job rows in the behaviours of SpecMonitor.
MaxHealthChecks == 1
MaxWorkflowsMonitor == 1
MaxJobsMonitor == 10

\* ------------------------------------------------------------- values

NULL == "null"
UNDEFINED == "undefined"
\* CURRENT_TIMESTAMP, abstracted to "some instant".
TS == "ts"

\* error.message of the three kinds of rejected await
StepError == "step_error"
StoreError == "store_error"
QueueError == "queue_error"
NotFound == "not_found"
NotNullViolation == "not_null_violation"
ConfigMissing == "environment_variable_not_set"
DatabaseNotInitialized == "database_not_initialized"
RedisNotInitialized == "redis_not_initialized"
QueueNotInitialized == "job_queue_not_initialized"

\* workflow-type labels a caller passes to createWorkflow
Labels == {"full_listing", "test", "other_type", "constructor", "toString"}

\* ------------------------------------------------- getExecutionPlan

\* the object literal `plans`: its own properties
plans ==
  [ full_listing |->
      << "mls_data_ingester", "property_photos_collector",
         "competitive_analysis_engine", "master_content_generator",
         "facebook_post_generator", "instagram_caption_generator",
         "facebook_publisher", "instagram_publisher",
         "engagement_tracker", "lead_capture_monitor" >>,
    test |-> << "test_node" >> ]

\* A JavaScript value as queueWorkflow reads it: its .length and its indexed
\* elements (an index without element reads undefined).
ArrayValue(elems) ==
  [kind |-> "array", length |-> Len(elems), elems |-> elems]

FunctionValue(n) ==
  [kind |-> "function", length |-> n, elems |-> << >>]

\* Members every object literal inherits from Object.prototype: the
\* constructor Object (Object.length is 1) and toString (length 0).
ObjectPrototype ==
  [ constructor |-> FunctionValue(1), toString |-> FunctionValue(0) ]

\* plans[workflowType]: own property, else inherited member, else undefined
\* (modelled as the empty sequence of candidates).
PlanLookup(workflowType) ==
  IF workflowType \in DOMAIN plans THEN << ArrayValue(plans[workflowType]) >>
  ELSE IF workflowType \in DOMAIN ObjectPrototype
       THEN << ObjectPrototype[workflowType] >>
       ELSE << >>

\* return plans[workflowType] || plans['test'];  (arrays and functions are
\* truthy, undefined is falsy)
getExecutionPlan(workflowType) ==
  IF PlanLookup(workflowType) # << >>
  THEN PlanLookup(workflowType)[1]
  ELSE ArrayValue(plans["test"])

\* i < executionPlan.length
LoopCond(i, plan) == i < plan.length

\* executionPlan[i]
ElemAt(plan, i) ==
  IF i + 1 \in DOMAIN plan.elems THEN plan.elems[i + 1] ELSE UNDEFINED

\* ----------------------------------------------------------- store

\* INSERT INTO workflows (name, status, property_id, metadata)
InsertWorkflow(wfs, workflowType) ==
  Append(wfs, [name |-> workflowType, status |-> "pending",
               completed_at |-> NULL])

\* InsertJob, were the priority the loop index i instead of i + 1
InsertJob_Priority0(js, workflowId, nodeName, i) ==
  Append(js, [workflow_id |-> workflowId, node_name |-> nodeName,
              status |-> "pending", priority |-> i,
              started_at |-> NULL, completed_at |-> NULL,
              result |-> NULL, error |-> NULL])

\* InsertJob, were (workflow_id, priority) a unique key the insert skips on
InsertJob_Unique(js, workflowId, nodeName, i) ==
  IF \E j \in DOMAIN js :
       js[j].workflow_id = workflowId /\ js[j].priority = i + 1
  THEN js
  ELSE Append(js, [workflow_id |-> workflowId, node_name |-> nodeName,
                   status |-> "pending", priority |-> i + 1,
                   started_at |-> NULL, completed_at |-> NULL,
                   result |-> NULL, error |-> NULL])

\* INSERT INTO jobs (workflow_id, node_name, status, priority)
\*   VALUES ($1, $2, 'pending', i + 1)
InsertJob(js, workflowId, nodeName, i) ==
  Append(js, [workflow_id |-> workflowId, node_name |-> nodeName,
              status |-> "pending", priority |-> i + 1,
              started_at |-> NULL, completed_at |-> NULL,
              result |-> NULL, error |-> NULL])

\* node_name VARCHAR(255) NOT NULL: the driver sends undefined as NULL
ViolatesNotNull(nodeName) == nodeName \in {UNDEFINED, NULL}

\* UpdateWorkflowQueued, were the status left as it is
UpdateWorkflowQueued_KeepStatus(wfs, workflowId) == wfs

\* UPDATE workflows SET status = 'queued' WHERE id = $2
UpdateWorkflowQueued(wfs, workflowId) ==
  [w \in DOMAIN wfs |->
     IF w = workflowId THEN [wfs[w] EXCEPT !.status = "queued"] ELSE wfs[w]]

\* UpdateWorkflowFailed, were the failure to put the workflow back to pending
UpdateWorkflowFailed_Reset(wfs, workflowId) ==
  [w \in DOMAIN wfs |->
     IF w = workflowId THEN [wfs[w] EXCEPT !.status = "pending"] ELSE wfs[w]]

\* UpdateWorkflowFailed, were completed_at set as well
UpdateWorkflowFailed_Timestamp(wfs, workflowId) ==
  [w \in DOMAIN wfs |->
     IF w = workflowId
     THEN [wfs[w] EXCEPT !.status = "failed", !.completed_at = TS]
     ELSE wfs[w]]

\* UpdateWorkflowFailed, were the WHERE id = $1 absent
UpdateWorkflowFailed_All(wfs, workflowId) ==
  [w \in DOMAIN wfs |-> [wfs[w] EXCEPT !.status = "failed"]]

\* UPDATE workflows SET status = 'failed' WHERE id = $1
UpdateWorkflowFailed(wfs, workflowId) ==
  [w \in DOMAIN wfs |->
     IF w = workflowId THEN [wfs[w] EXCEPT !.status = "failed"] ELSE wfs[w]]

\* UpdateWorkflowCompleted, were completed_at left unset
UpdateWorkflowCompleted_NoTimestamp(wfs, workflowId) ==
  [w \in DOMAIN wfs |->
     IF w = workflowId THEN [wfs[w] EXCEPT !.status = "completed"] ELSE wfs[w]]

\* UPDATE workflows SET status = 'completed', completed_at = CURRENT_TIMESTAMP
UpdateWorkflowCompleted(wfs, workflowId) ==
  [w \in DOMAIN wfs |->
     IF w = workflowId
     THEN [wfs[w] EXCEPT !.status = "completed", !.completed_at = TS]
     ELSE wfs[w]]

\* UpdateJobRunning, were the status left as it is
UpdateJobRunning_KeepStatus(js, jobId) ==
  [j \in DOMAIN js |->
     IF j = jobId THEN [js[j] EXCEPT !.started_at = TS] ELSE js[j]]

\* UPDATE jobs SET status = 'running', started_at = CURRENT_TIMESTAMP
UpdateJobRunning(js, jobId) ==
  [j \in DOMAIN js |->
     IF j = jobId
     THEN [js[j] EXCEPT !.status = "running", !.started_at = TS]
     ELSE js[j]]

\* UpdateJobCompleted, were the status left as it is
UpdateJobCompleted_KeepStatus(js, jobId, result) ==
  [j \in DOMAIN js |->
     IF j = jobId
     THEN [js[j] EXCEPT !.completed_at = TS, !.result = result]
     ELSE js[j]]

\* UPDATE jobs SET status = 'completed', completed_at = ..., result = $1
UpdateJobCompleted(js, jobId, result) ==
  [j \in DOMAIN js |->
     IF j = jobId
     THEN [js[j] EXCEPT !.status = "completed", !.completed_at = TS,
                        !.result = result]
     ELSE js[j]]

\* UpdateJobFailed, were error.message not stored
UpdateJobFailed_NoMessage(js, jobId, message) ==
  [j \in DOMAIN js |->
     IF j = jobId
     THEN [js[j] EXCEPT !.status = "failed", !.completed_at = TS]
     ELSE js[j]]

\* UPDATE jobs SET status = 'failed', completed_at = ..., error = $1
UpdateJobFailed(js, jobId, message) ==
  [j \in DOMAIN js |->
     IF j = jobId
     THEN [js[j] EXCEPT !.status = "failed", !.completed_at = TS,
                        !.error = message]
     ELSE js[j]]

\* the rows of SELECT * FROM jobs WHERE workflow_id = $1
JobsOf(js, workflowId) == {j \in DOMAIN js : js[j].workflow_id = workflowId}

PendingOf(js, workflowId) ==
  {j \in JobsOf(js, workflowId) : js[j].status = "pending"}

\* SelectNextPending, were the ORDER BY priority absent
SelectNextPending_Any(js, workflowId) ==
  IF PendingOf(js, workflowId) = {} THEN {0} ELSE PendingOf(js, workflowId)

\* SelectNextPending, were the condition on the status absent
SelectNextPending_NoStatus(js, workflowId) ==
  IF JobsOf(js, workflowId) = {} THEN {0}
  ELSE {j \in JobsOf(js, workflowId) :
          \A o \in JobsOf(js, workflowId) : js[j].priority <= js[o].priority}

\* SELECT * FROM jobs WHERE workflow_id = $1 AND status = 'pending'
\*   ORDER BY priority ASC LIMIT 1
\* The possible results: 0 for no row, else any pending row of lowest
\* priority (the order among equal priorities is not specified).
SelectNextPending(js, workflowId) ==
  IF PendingOf(js, workflowId) = {} THEN {0}
  ELSE {j \in PendingOf(js, workflowId) :
          \A o \in PendingOf(js, workflowId) : js[j].priority <= js[o].priority}

\* OrderByPriority, were the order ORDER BY priority DESC
OrderByPriority_Desc(js, rows) ==
  LET RECURSIVE Descending(_)
      Descending(rest) ==
        IF rest = {} THEN {<< >>}
        ELSE UNION {{<< [id |-> j, row |-> js[j]] >> \o t :
                       t \in Descending(rest \ {j})} :
                    j \in {m \in rest : \A o \in rest :
                                          js[m].priority >= js[o].priority}}
  IN Descending(rows)

\* SELECT * FROM jobs WHERE workflow_id = $1 ORDER BY priority ASC
\* The possible results over the rows `rows`: every listing of them in
\* ascending priority (the order among equal priorities is not specified).
OrderByPriority(js, rows) ==
  LET RECURSIVE Ascending(_)
      Ascending(rest) ==
        IF rest = {} THEN {<< >>}
        ELSE UNION {{<< [id |-> j, row |-> js[j]] >> \o t :
                       t \in Ascending(rest \ {j})} :
                    j \in {m \in rest : \A o \in rest :
                                          js[m].priority <= js[o].priority}}
  IN Ascending(rows)

\* the result executeNode resolves with, JSON.stringify'ed into jobs.result
NodeResult(nodeName) == "success"

\* -------------------------------------------------------------- state

VARIABLES
  workflows,    \* table workflows: row id |-> [name, status, completed_at]
  jobs,         \* table jobs: row id |-> [workflow_id, node_name, status, ...]
  queue,        \* Bull queue 'empire-jobs': waiting dispatch messages, FIFO
  workers,      \* processJob invocations in flight, each held by one worker
  caller,       \* the createWorkflow / queueWorkflow call in flight
  faults,       \* rejected queries and enqueues so far
  delivered,    \* messages handed to a worker so far
  redeliveries, \* messages handed to a worker a second time so far
  dispatched,   \* ids of the jobs a message enqueued so far has named
  outcomes,     \* ended processJob invocations: [jobId, error]
  callLog,      \* ended createWorkflow and queueWorkflow invocations:
                \* [op, workflowId, error]
  pool,         \* database.js: let pool
  redisClient,  \* redis.js: let redisClient
  jobQueue,     \* redis.js: let jobQueue
  boot,         \* the environment's URLs, the initialize calls in flight
                \* and how the calls so far ended, the position of
                \* startSystem and the exit code of the process (<< >>
                \* while it runs)
  monitor,      \* SystemHealthMonitor: position of the health check in
                \* flight and this.metrics
  system_logs   \* table system_logs: [level, message]

\* the orchestrator's tables, queue and invocations
orchestration == << workflows, jobs, queue, workers, caller, faults, delivered,
                    redeliveries, dispatched, outcomes, callLog >>

\* the module-level handles, the start-up calls and the health monitor
platform == << pool, redisClient, jobQueue, boot, monitor, system_logs >>

vars == << workflows, jobs, queue, workers, caller, faults, delivered,
           redeliveries, dispatched, outcomes, callLog, pool, redisClient,
           jobQueue, boot, monitor, system_logs >>

\* processJob(bullJob) as it starts: bullJob.data, and the invocation's
\* locals.  delivery tells apart the invocations in flight for one job;
\* again: a redelivery for a job already completed.
Invocation(m, delivery, again) ==
  [pc |-> "markRunning", jobId |-> m.jobId, workflowId |-> m.workflowId,
   nodeName |-> m.nodeName, err |-> NULL, sel |-> 0,
   delivery |-> delivery, again |-> again]

\* invocation r moves on as q
Becomes(r, q) == workers' = (workers \ {r}) \cup {q}

IdleCaller == [pc |-> "idle", op |-> NULL, workflowId |-> 0,
               plan |-> ArrayValue(<< >>), i |-> 0, sel |-> 0,
               row |-> << >>, ret |-> << >>, err |-> NULL]

\* new SystemHealthMonitor(): this.metrics as the constructor sets it
IdleMonitor ==
  [pc |-> "idle", database |-> "unknown", redis |-> "unknown",
   memory |-> [used |-> 0, total |-> 0],
   activeWorkflows |-> 0, pendingJobs |-> 0, checks |-> 0, persisted |-> 0]

\* no workflow, no job, no message, no call
NoOrchestration ==
  /\ workflows = << >>
  /\ jobs = << >>
  /\ queue = << >>
  /\ workers = {}
  /\ caller = IdleCaller
  /\ faults = 0
  /\ delivered = {}
  /\ redeliveries = 0
  /\ dispatched = {}
  /\ outcomes = {}
  /\ callLog = << >>

\* startSystem has run initializeDatabase, initializeRedis and
\* orchestrator.initialize; the health monitor is constructed
Started ==
  /\ pool = "pool"
  /\ redisClient = "client"
  /\ jobQueue = "queue"
  /\ boot = [dbUrl |-> TRUE, redisUrl |-> TRUE,
             db |-> "idle", redis |-> "idle",
             dbReady |-> TRUE, redisReady |-> TRUE,
             dbError |-> NULL, redisError |-> NULL,
             orchestrator |-> "initialized",
             system |-> "healthMonitor", exitCode |-> << >>]
  /\ monitor = IdleMonitor
  /\ system_logs = << >>

\* the process as it is loaded: no handle, nothing called; the environment
\* sets DATABASE_URL and REDIS_URL or not
InitBoot ==
  /\ NoOrchestration
  /\ pool = NULL
  /\ redisClient = NULL
  /\ jobQueue = NULL
  /\ \E d \in BOOLEAN : \E c \in BOOLEAN :
       boot = [dbUrl |-> d, redisUrl |-> c,
               db |-> "idle", redis |-> "idle",
               dbReady |-> FALSE, redisReady |-> FALSE,
               dbError |-> NULL, redisError |-> NULL,
               orchestrator |-> "none",
               system |-> "loaded", exitCode |-> << >>]
  /\ monitor = IdleMonitor
  /\ system_logs = << >>

Init ==
  /\ Started
  /\ workflows = << >>
  /\ jobs = << >>
  /\ queue = << >>
  /\ workers = {}
  /\ caller = IdleCaller
  /\ faults = 0
  /\ delivered = {}
  /\ redeliveries = 0
  /\ dispatched = {}
  /\ outcomes = {}
  /\ callLog = << >>

\* DispatchMessage, were the row's node_name not copied into the message
DispatchMessage_NoNode(js, jobId, workflowId) ==
  [jobId |-> jobId, workflowId |-> workflowId, nodeName |-> UNDEFINED]

\* {jobId, workflowId, nodeName} as processNextJob builds it from the row
DispatchMessage(js, jobId, workflowId) ==
  [jobId |-> jobId, workflowId |-> workflowId, nodeName |-> js[jobId].node_name]

\* the least number no invocation in flight for the job of m carries
FreeDelivery(m) ==
  CHOOSE n \in 1 .. NumWorkers :
    /\ \A r \in workers : r.jobId = m.jobId => r.delivery # n
    /\ \A o \in 1 .. n - 1 :
         \E r \in workers : r.jobId = m.jobId /\ r.delivery = o

\* a consumer worker is free to take a message
FreeWorker == Cardinality(workers) < NumWorkers

\* the caller's invocation ends: returns (error NULL) or throws
CallEnds(error) ==
  /\ caller' = IdleCaller
  /\ callLog' = Append(callLog, [op |-> caller.op,
                                 workflowId |-> caller.workflowId,
                                 error |-> error])

\* processJob invocation r ends: returns (error NULL) or throws
JobEnds(r, error) ==
  /\ workers' = workers \ {r}
  /\ outcomes' = outcomes \cup {[jobId |-> r.jobId, error |-> error]}

\* ------------------------------------------------------ createWorkflow

\* createWorkflow(propertyId, workflowType): the INSERT of the workflow row;
\* the new id is the row's; queueWorkflow(workflowId) is called next.
createWorkflowUpTo(n, rows, workflowType) ==
  /\ caller.pc = "idle"
  /\ Len(workflows) < n
  /\ Len(jobs) + getExecutionPlan(workflowType).length <= rows
  /\ workflows' = InsertWorkflow(workflows, workflowType)
  /\ caller' = [IdleCaller EXCEPT !.pc = "qwSelectWorkflow",
                                  !.op = "createWorkflow",
                                  !.workflowId = Len(workflows) + 1]
  /\ UNCHANGED << jobs, queue, workers, faults, delivered, redeliveries,
                  dispatched, outcomes, callLog >>
  /\ UNCHANGED platform

createWorkflow(workflowType) ==
  createWorkflowUpTo(MaxWorkflows, MaxJobs, workflowType)

createWorkflowLive(workflowType) ==
  createWorkflowUpTo(MaxWorkflowsLive, MaxJobsLive, workflowType)

createWorkflowCalls(workflowType) ==
  createWorkflowUpTo(MaxWorkflowsCalls, MaxJobsCalls, workflowType)

\* createWorkflow in the behaviours of SpecMonitor
createWorkflowMonitor(workflowType) ==
  createWorkflowUpTo(MaxWorkflowsMonitor, MaxJobsMonitor, workflowType)

\* the INSERT is rejected: createWorkflow's catch rethrows, no row exists
createWorkflow_InsertFails ==
  /\ caller.pc = "idle"
  /\ Len(workflows) < MaxWorkflows
  /\ faults < MaxFaults
  /\ faults' = faults + 1
  /\ callLog' = Append(callLog, [op |-> "createWorkflow", workflowId |-> 0,
                                 error |-> StoreError])
  /\ UNCHANGED << workflows, jobs, queue, workers, caller, delivered,
                  redeliveries, dispatched, outcomes >>
  /\ UNCHANGED platform

\* ------------------------------------------------------- queueWorkflow

\* a direct call of queueWorkflow(workflowId), on a present or absent id
queueWorkflow(workflowId) ==
  /\ caller.pc = "idle"
  /\ Len(SelectSeq(callLog, LAMBDA c : c.op = "queueWorkflow")) < MaxRequeues
  /\ workflowId \in DOMAIN workflows =>
       Len(jobs) + getExecutionPlan(workflows[workflowId].name).length
         <= MaxJobs
  /\ caller' = [IdleCaller EXCEPT !.pc = "qwSelectWorkflow",
                                  !.op = "queueWorkflow",
                                  !.workflowId = workflowId]
  /\ UNCHANGED << workflows, jobs, queue, workers, faults, delivered,
                  redeliveries, dispatched, outcomes, callLog >>
  /\ UNCHANGED platform

\* queueWorkflow_SelectWorkflow, were an empty result not to throw and the
\* plan of an absent workflow taken to be that of test
queueWorkflow_SelectWorkflow_NoCheck ==
  /\ caller.pc = "qwSelectWorkflow"
  /\ LET plan == IF caller.workflowId \notin DOMAIN workflows
                 THEN ArrayValue(plans["test"])
                 ELSE getExecutionPlan(workflows[caller.workflowId].name)
     IN caller' = [caller EXCEPT
                     !.plan = plan,
                     !.i = 0,
                     !.pc = IF LoopCond(0, plan)
                            THEN "qwInsertJob" ELSE "qwUpdateQueued"]
  /\ UNCHANGED << workflows, jobs, queue, workers, faults, delivered,
                  redeliveries, dispatched, outcomes, callLog >>
  /\ UNCHANGED platform

\* SELECT * FROM workflows WHERE id = $1; no row: throw "not found";
\* else executionPlan = getExecutionPlan(workflow.name) and the loop begins
queueWorkflow_SelectWorkflow ==
  /\ caller.pc = "qwSelectWorkflow"
  /\ IF caller.workflowId \notin DOMAIN workflows
     THEN CallEnds(NotFound)
     ELSE /\ caller' =
               [caller EXCEPT
                  !.plan = getExecutionPlan(workflows[caller.workflowId].name),
                  !.i = 0,
                  !.pc = IF LoopCond(0,
                            getExecutionPlan(workflows[caller.workflowId].name))
                         THEN "qwInsertJob" ELSE "qwUpdateQueued"]
          /\ UNCHANGED callLog
  /\ UNCHANGED << workflows, jobs, queue, workers, faults, delivered,
                  redeliveries, dispatched, outcomes >>
  /\ UNCHANGED platform

\* one iteration of the loop: INSERT INTO jobs (..., 'pending', i + 1)
queueWorkflow_InsertJob ==
  /\ caller.pc = "qwInsertJob"
  /\ IF ViolatesNotNull(ElemAt(caller.plan, caller.i))
     THEN /\ CallEnds(NotNullViolation)
          /\ UNCHANGED jobs
     ELSE /\ jobs' = InsertJob(jobs, caller.workflowId,
                               ElemAt(caller.plan, caller.i), caller.i)
          /\ caller' = [caller EXCEPT
                          !.i = caller.i + 1,
                          !.pc = IF LoopCond(caller.i + 1, caller.plan)
                                 THEN "qwInsertJob" ELSE "qwUpdateQueued"]
          /\ UNCHANGED callLog
  /\ UNCHANGED << workflows, queue, workers, faults, delivered, redeliveries,
                  dispatched, outcomes >>
  /\ UNCHANGED platform

\* UPDATE workflows SET status = 'queued'; processNextJob is called next
queueWorkflow_UpdateQueued ==
  /\ caller.pc = "qwUpdateQueued"
  /\ workflows' = UpdateWorkflowQueued(workflows, caller.workflowId)
  /\ caller' = [caller EXCEPT !.pc = "pnjSelect"]
  /\ UNCHANGED << jobs, queue, workers, faults, delivered, redeliveries,
                  dispatched, outcomes, callLog >>
  /\ UNCHANGED platform

\* processNextJob in the caller's invocation: the SELECT of the next job
caller_processNextJob_Select ==
  /\ caller.pc = "pnjSelect"
  /\ \E s \in SelectNextPending(jobs, caller.workflowId) :
       caller' = [caller EXCEPT
                    !.sel = s,
                    !.pc = IF s = 0 THEN "completeWorkflow" ELSE "pnjAdd"]
  /\ UNCHANGED << workflows, jobs, queue, workers, faults, delivered,
                  redeliveries, dispatched, outcomes, callLog >>
  /\ UNCHANGED platform

\* processNextJob in the caller's invocation: jobQueue.add, then return
caller_processNextJob_Add ==
  /\ caller.pc = "pnjAdd"
  /\ queue' = Append(queue,
                     DispatchMessage(jobs, caller.sel, caller.workflowId))
  /\ dispatched' = dispatched \cup {caller.sel}
  /\ CallEnds(NULL)
  /\ UNCHANGED << workflows, jobs, workers, faults, delivered, redeliveries,
                  outcomes >>
  /\ UNCHANGED platform

\* completeWorkflow in the caller's invocation (no pending job was found)
caller_completeWorkflow ==
  /\ caller.pc = "completeWorkflow"
  /\ workflows' = UpdateWorkflowCompleted(workflows, caller.workflowId)
  /\ CallEnds(NULL)
  /\ UNCHANGED << jobs, queue, workers, faults, delivered, redeliveries,
                  dispatched, outcomes >>
  /\ UNCHANGED platform

\* a query of the call in flight is rejected: the catch blocks of
\* processNextJob / completeWorkflow, queueWorkflow and createWorkflow log
\* and rethrow
caller_QueryFails ==
  /\ caller.pc \in {"qwSelectWorkflow", "qwInsertJob", "qwUpdateQueued",
                    "pnjSelect", "completeWorkflow"}
  /\ faults < MaxFaults
  /\ faults' = faults + 1
  /\ CallEnds(StoreError)
  /\ UNCHANGED << workflows, jobs, queue, workers, delivered, redeliveries,
                  dispatched, outcomes >>
  /\ UNCHANGED platform

\* caller_AddFails, were processNextJob's catch to log the error only
caller_AddFails_Swallow ==
  /\ caller.pc = "pnjAdd"
  /\ faults < MaxFaults
  /\ faults' = faults + 1
  /\ CallEnds(NULL)
  /\ UNCHANGED << workflows, jobs, queue, workers, delivered, redeliveries,
                  dispatched, outcomes >>
  /\ UNCHANGED platform

\* jobQueue.add is rejected in the caller's invocation
caller_AddFails ==
  /\ caller.pc = "pnjAdd"
  /\ faults < MaxFaults
  /\ faults' = faults + 1
  /\ CallEnds(QueueError)
  /\ UNCHANGED << workflows, jobs, queue, workers, delivered, redeliveries,
                  dispatched, outcomes >>
  /\ UNCHANGED platform

\* --------------------------------------------------- getWorkflowStatus

\* a call of getWorkflowStatus(workflowId), on a present or absent id
getWorkflowStatus(workflowId) ==
  /\ caller.pc = "idle"
  /\ caller' = [IdleCaller EXCEPT !.pc = "gwsSelectWorkflow",
                                  !.op = "getWorkflowStatus",
                                  !.workflowId = workflowId]
  /\ UNCHANGED << workflows, jobs, queue, workers, faults, delivered,
                  redeliveries, dispatched, outcomes, callLog >>
  /\ UNCHANGED platform

\* SELECT * FROM workflows WHERE id = $1; no row: throw "not found", which
\* the catch block rethrows
getWorkflowStatus_SelectWorkflow ==
  /\ caller.pc = "gwsSelectWorkflow"
  /\ caller' = IF caller.workflowId \notin DOMAIN workflows
               THEN [caller EXCEPT !.err = NotFound, !.pc = "gwsEnd"]
               ELSE [caller EXCEPT
                       !.row = << workflows[caller.workflowId] >>,
                       !.pc = "gwsSelectJobs"]
  /\ UNCHANGED << workflows, jobs, queue, workers, faults, delivered,
                  redeliveries, dispatched, outcomes, callLog >>
  /\ UNCHANGED platform

\* SELECT * FROM jobs WHERE workflow_id = $1 ORDER BY priority ASC;
\* return { workflow, jobs }
getWorkflowStatus_SelectJobs ==
  /\ caller.pc = "gwsSelectJobs"
  /\ \E rows \in OrderByPriority(jobs, JobsOf(jobs, caller.workflowId)) :
       caller' = [caller EXCEPT
                    !.ret = << [workflow |-> caller.row[1], jobs |-> rows] >>,
                    !.pc = "gwsEnd"]
  /\ UNCHANGED << workflows, jobs, queue, workers, faults, delivered,
                  redeliveries, dispatched, outcomes, callLog >>
  /\ UNCHANGED platform

\* the caller has the returned value or the thrown error; the call is over
getWorkflowStatus_End ==
  /\ caller.pc = "gwsEnd"
  /\ caller' = IdleCaller
  /\ UNCHANGED << workflows, jobs, queue, workers, faults, delivered,
                  redeliveries, dispatched, outcomes, callLog >>
  /\ UNCHANGED platform

\* ---------------------------------------------------- the job queue

\* The consumer registered in initialize(): Bull hands the oldest waiting
\* message to a free worker, which calls processJob(job).
Deliver ==
  /\ queue # << >>
  /\ FreeWorker
  /\ delivered' = delivered \cup {Head(queue)}
  /\ workers' = workers \cup
       {Invocation(Head(queue), FreeDelivery(Head(queue)), FALSE)}
  /\ queue' = Tail(queue)
  /\ UNCHANGED << workflows, jobs, caller, faults, redeliveries, dispatched,
                  outcomes, callLog >>
  /\ UNCHANGED platform

\* At-least-once delivery: a message already handed to a worker (a stalled
\* job) is handed to a worker again.
Redeliver(m) ==
  /\ m \in delivered
  /\ redeliveries < MaxRedeliveries
  /\ FreeWorker
  /\ workers' = workers \cup
       {Invocation(m, FreeDelivery(m), jobs[m.jobId].status = "completed")}
  /\ redeliveries' = redeliveries + 1
  /\ UNCHANGED << workflows, jobs, queue, caller, faults, delivered,
                  dispatched, outcomes, callLog >>
  /\ UNCHANGED platform

\* ---------------------------------------------------------- processJob

\* UPDATE jobs SET status = 'running', started_at = CURRENT_TIMESTAMP
processJob_MarkRunning(r) ==
  /\ r.pc = "markRunning"
  /\ jobs' = UpdateJobRunning(jobs, r.jobId)
  /\ Becomes(r, [r EXCEPT !.pc = "executeNode"])
  /\ UNCHANGED << workflows, queue, caller, faults, delivered, redeliveries,
                  dispatched, outcomes, callLog >>
  /\ UNCHANGED platform

\* the step executions that have rejected so far
StepErrorsSoFar ==
  Cardinality({j \in DOMAIN jobs : jobs[j].error = StepError})
  + Cardinality({r \in workers : r.pc = "markFailed" /\ r.err = StepError})

\* await this.executeNode(nodeName, workflowId) resolves with a result
executeNode(r) ==
  /\ r.pc = "executeNode"
  /\ Becomes(r, [r EXCEPT !.pc = "markCompleted"])
  /\ UNCHANGED << workflows, jobs, queue, caller, faults, delivered,
                  redeliveries, dispatched, outcomes, callLog >>
  /\ UNCHANGED platform

\* await this.executeNode(nodeName, workflowId) rejects: control passes to
\* processJob's catch with the step's error
executeNode_Rejects(r) ==
  /\ r.pc = "executeNode"
  /\ StepErrorsSoFar < MaxStepErrors
  /\ Becomes(r, [r EXCEPT !.pc = "markFailed", !.err = StepError])
  /\ UNCHANGED << workflows, jobs, queue, caller, faults, delivered,
                  redeliveries, dispatched, outcomes, callLog >>
  /\ UNCHANGED platform

\* UPDATE jobs SET status = 'completed', ..., result = $1;
\* processNextJob(workflowId) is called next
processJob_MarkCompleted(r) ==
  /\ r.pc = "markCompleted"
  /\ jobs' = UpdateJobCompleted(jobs, r.jobId,
                                NodeResult(r.nodeName))
  /\ Becomes(r, [r EXCEPT !.pc = "pnjSelect"])
  /\ UNCHANGED << workflows, queue, caller, faults, delivered, redeliveries,
                  dispatched, outcomes, callLog >>
  /\ UNCHANGED platform

\* processNextJob inside processJob: the SELECT of the next pending job
processNextJob_Select(r) ==
  /\ r.pc = "pnjSelect"
  /\ \E s \in SelectNextPending(jobs, r.workflowId) :
       Becomes(r, [r EXCEPT
                     !.sel = s,
                     !.pc = IF s = 0 THEN "completeWorkflow" ELSE "pnjAdd"])
  /\ UNCHANGED << workflows, jobs, queue, caller, faults, delivered,
                  redeliveries, dispatched, outcomes, callLog >>
  /\ UNCHANGED platform

\* processNextJob inside processJob: jobQueue.add({jobId, workflowId,
\* nodeName}); processNextJob returns and processJob returns the result
processNextJob_Add(r) ==
  /\ r.pc = "pnjAdd"
  /\ queue' = Append(queue, DispatchMessage(jobs, r.sel,
                                            r.workflowId))
  /\ dispatched' = dispatched \cup {r.sel}
  /\ JobEnds(r, NULL)
  /\ UNCHANGED << workflows, jobs, caller, faults, delivered, redeliveries,
                  callLog >>
  /\ UNCHANGED platform

\* completeWorkflow inside processJob (no pending job was found): the UPDATE
\* to 'completed'; processJob returns the result
completeWorkflow(r) ==
  /\ r.pc = "completeWorkflow"
  /\ workflows' = UpdateWorkflowCompleted(workflows, r.workflowId)
  /\ JobEnds(r, NULL)
  /\ UNCHANGED << jobs, queue, caller, faults, delivered, redeliveries,
                  dispatched, callLog >>
  /\ UNCHANGED platform

\* catch: UPDATE jobs SET status = 'failed', ..., error = error.message
processJob_MarkFailed(r) ==
  /\ r.pc = "markFailed"
  /\ jobs' = UpdateJobFailed(jobs, r.jobId, r.err)
  /\ Becomes(r, [r EXCEPT !.pc = "markWorkflowFailed"])
  /\ UNCHANGED << workflows, queue, caller, faults, delivered, redeliveries,
                  dispatched, outcomes, callLog >>
  /\ UNCHANGED platform

\* processJob_MarkWorkflowFailed, were the catch block not to rethrow
processJob_MarkWorkflowFailed_Swallow(r) ==
  /\ r.pc = "markWorkflowFailed"
  /\ workflows' = UpdateWorkflowFailed(workflows, r.workflowId)
  /\ JobEnds(r, NULL)
  /\ UNCHANGED << jobs, queue, caller, faults, delivered, redeliveries,
                  dispatched, callLog >>
  /\ UNCHANGED platform

\* catch: UPDATE workflows SET status = 'failed'; throw error
processJob_MarkWorkflowFailed(r) ==
  /\ r.pc = "markWorkflowFailed"
  /\ workflows' = UpdateWorkflowFailed(workflows, r.workflowId)
  /\ JobEnds(r, r.err)
  /\ UNCHANGED << jobs, queue, caller, faults, delivered, redeliveries,
                  dispatched, callLog >>
  /\ UNCHANGED platform

\* a query inside processJob's try block is rejected (the two job UPDATEs,
\* processNextJob's SELECT, completeWorkflow's UPDATE): control passes to
\* processJob's catch
processJob_QueryFails(r) ==
  /\ r.pc \in {"markRunning", "markCompleted", "pnjSelect",
                        "completeWorkflow"}
  /\ faults < MaxFaults
  /\ faults' = faults + 1
  /\ Becomes(r, [r EXCEPT !.pc = "markFailed", !.err = StoreError])
  /\ UNCHANGED << workflows, jobs, queue, caller, delivered, redeliveries,
                  dispatched, outcomes, callLog >>
  /\ UNCHANGED platform

\* jobQueue.add is rejected inside processJob's try block
processJob_AddFails(r) ==
  /\ r.pc = "pnjAdd"
  /\ faults < MaxFaults
  /\ faults' = faults + 1
  /\ Becomes(r, [r EXCEPT !.pc = "markFailed", !.err = QueueError])
  /\ UNCHANGED << workflows, jobs, queue, caller, delivered, redeliveries,
                  dispatched, outcomes, callLog >>
  /\ UNCHANGED platform

\* an UPDATE inside processJob's catch block is rejected: that error leaves
\* processJob
processJob_CatchQueryFails(r) ==
  /\ r.pc \in {"markFailed", "markWorkflowFailed"}
  /\ faults < MaxFaults
  /\ faults' = faults + 1
  /\ JobEnds(r, StoreError)
  /\ UNCHANGED << workflows, jobs, queue, caller, delivered, redeliveries,
                  dispatched, callLog >>
  /\ UNCHANGED platform

\* ------------------------------------------------------------ start-up

\* getPool: the handle, or the error it throws while pool is null
getPool == IF pool = NULL THEN DatabaseNotInitialized ELSE pool

\* getRedisClient: the client, or the error it throws while it is null
getRedisClient == IF redisClient = NULL THEN RedisNotInitialized ELSE redisClient

\* getJobQueue: the queue, or the error it throws while it is null
getJobQueue == IF jobQueue = NULL THEN QueueNotInitialized ELSE jobQueue

\* initializeDatabase up to its first await: an existing pool is returned at
\* once; without DATABASE_URL it throws; else the pool is created and
\* ASSIGNED to the module variable, and the connection test begins
initializeDatabase ==
  /\ boot.db = "idle"
  /\ IF pool # NULL
       THEN /\ boot' = [boot EXCEPT !.dbReady = TRUE, !.dbError = NULL]
            /\ pool' = pool
       ELSE IF ~ boot.dbUrl
              THEN /\ boot' = [boot EXCEPT !.dbError = ConfigMissing]
                   /\ pool' = pool
              ELSE /\ pool' = "pool"
                   /\ boot' = [boot EXCEPT !.db = "connect", !.dbError = NULL]
  /\ UNCHANGED << redisClient, jobQueue, monitor, system_logs >>
  /\ UNCHANGED orchestration

\* await pool.connect() resolves
initializeDatabase_Connect ==
  /\ boot.db = "connect"
  /\ boot' = [boot EXCEPT !.db = "selectNow"]
  /\ UNCHANGED << pool, redisClient, jobQueue, monitor, system_logs >>
  /\ UNCHANGED orchestration

\* await client.query('SELECT NOW()') resolves; createTables begins
initializeDatabase_SelectNow ==
  /\ boot.db = "selectNow"
  /\ boot' = [boot EXCEPT !.db = "createTables"]
  /\ UNCHANGED << pool, redisClient, jobQueue, monitor, system_logs >>
  /\ UNCHANGED orchestration

\* await createTables() resolves (its connect and its three CREATE TABLE
\* statements as one step); initializeDatabase returns the pool
initializeDatabase_CreateTables ==
  /\ boot.db = "createTables"
  /\ boot' = [boot EXCEPT !.db = "idle", !.dbReady = TRUE]
  /\ UNCHANGED << pool, redisClient, jobQueue, monitor, system_logs >>
  /\ UNCHANGED orchestration

\* the connection test or createTables rejects: the error is rethrown and
\* the module variable keeps the pool
initializeDatabase_Fails ==
  /\ boot.db \in {"connect", "selectNow", "createTables"}
  /\ boot' = [boot EXCEPT !.db = "idle", !.dbError = StoreError]
  /\ UNCHANGED << pool, redisClient, jobQueue, monitor, system_logs >>
  /\ UNCHANGED orchestration

\* initializeRedis up to its first await: without REDIS_URL it throws; else
\* the client is created and ASSIGNED to the module variable, and
\* connect() begins
initializeRedis ==
  /\ boot.redis = "idle"
  /\ IF ~ boot.redisUrl
       THEN /\ boot' = [boot EXCEPT !.redisError = ConfigMissing]
            /\ redisClient' = redisClient
       ELSE /\ redisClient' = "client"
            /\ boot' = [boot EXCEPT !.redis = "connect", !.redisError = NULL]
  /\ UNCHANGED << pool, jobQueue, monitor, system_logs >>
  /\ UNCHANGED orchestration

\* await redisClient.connect() resolves
initializeRedis_Connect ==
  /\ boot.redis = "connect"
  /\ boot' = [boot EXCEPT !.redis = "ping"]
  /\ UNCHANGED << pool, redisClient, jobQueue, monitor, system_logs >>
  /\ UNCHANGED orchestration

\* await redisClient.ping() resolves: the Bull queue is created and
\* assigned, initializeRedis returns
initializeRedis_Ping ==
  /\ boot.redis = "ping"
  /\ jobQueue' = "queue"
  /\ boot' = [boot EXCEPT !.redis = "idle", !.redisReady = TRUE]
  /\ UNCHANGED << pool, redisClient, monitor, system_logs >>
  /\ UNCHANGED orchestration

\* connect() or ping() rejects: initializeRedis rejects, and the module
\* variable keeps the client
initializeRedis_Fails ==
  /\ boot.redis \in {"connect", "ping"}
  /\ boot' = [boot EXCEPT !.redis = "idle", !.redisError = QueueError]
  /\ UNCHANGED << pool, redisClient, jobQueue, monitor, system_logs >>
  /\ UNCHANGED orchestration

\* orchestrator.initialize: this.db = getPool(), this.jobQueue =
\* getJobQueue(), then the processor is registered; either getter may throw
orchestrator_initialize ==
  /\ boot.orchestrator # "initialized"
  /\ boot' = [boot EXCEPT !.orchestrator =
                IF getPool = DatabaseNotInitialized
                     \/ getJobQueue = QueueNotInitialized
                  THEN "failed" ELSE "initialized"]
  /\ UNCHANGED << pool, redisClient, jobQueue, monitor, system_logs >>
  /\ UNCHANGED orchestration

\* startSystem is called as the module is loaded; it is about to call
\* initializeDatabase
startSystem ==
  /\ boot.system = "loaded"
  /\ boot' = [boot EXCEPT !.system = "initializeDatabase"]
  /\ UNCHANGED << pool, redisClient, jobQueue, monitor, system_logs >>
  /\ UNCHANGED orchestration

\* process.exit(1) in startSystem's catch
Exit1(b) == [b EXCEPT !.system = "exit", !.exitCode = << 1 >>]

\* startSystem, were its catch to log the error and go on to the next step
startSystem_AfterDatabase_GoOn ==
  /\ boot.system = "initializeDatabase"
  /\ boot.db = "idle"
  /\ boot.dbReady \/ boot.dbError # NULL
  /\ boot' = [boot EXCEPT !.system = "initializeRedis"]
  /\ UNCHANGED << pool, redisClient, jobQueue, monitor, system_logs >>
  /\ UNCHANGED orchestration

\* await initializeDatabase() settles: startSystem goes on to
\* initializeRedis, or its catch ends the process
startSystem_AfterDatabase ==
  /\ boot.system = "initializeDatabase"
  /\ boot.db = "idle"
  /\ boot.dbReady \/ boot.dbError # NULL
  /\ boot' = IF boot.dbReady
               THEN [boot EXCEPT !.system = "initializeRedis"]
               ELSE Exit1(boot)
  /\ UNCHANGED << pool, redisClient, jobQueue, monitor, system_logs >>
  /\ UNCHANGED orchestration

\* await initializeRedis() settles: startSystem goes on to construct and
\* initialize the orchestrator, or its catch ends the process
startSystem_AfterRedis ==
  /\ boot.system = "initializeRedis"
  /\ boot.redis = "idle"
  /\ boot.redisReady \/ boot.redisError # NULL
  /\ boot' = IF boot.redisReady
               THEN [boot EXCEPT !.system = "orchestrator"]
               ELSE Exit1(boot)
  /\ UNCHANGED << pool, redisClient, jobQueue, monitor, system_logs >>
  /\ UNCHANGED orchestration

\* await orchestrator.initialize() settles: startSystem goes on to construct
\* and start the health monitor, or its catch ends the process
startSystem_AfterOrchestrator ==
  /\ boot.system = "orchestrator"
  /\ boot.orchestrator # "none"
  /\ boot' = IF boot.orchestrator = "initialized"
               THEN [boot EXCEPT !.system = "healthMonitor"]
               ELSE Exit1(boot)
  /\ UNCHANGED << pool, redisClient, jobQueue, monitor, system_logs >>
  /\ UNCHANGED orchestration

\* await healthMonitor.start() resolves (the initial health check is over;
\* performHealthCheck catches every error): app.listen(PORT)
startSystem_Listen ==
  /\ boot.system = "healthMonitor"
  /\ monitor.pc = "idle"
  /\ monitor.checks > 0
  /\ boot' = [boot EXCEPT !.system = "listening"]
  /\ UNCHANGED << pool, redisClient, jobQueue, monitor, system_logs >>
  /\ UNCHANGED orchestration

\* ------------------------------------------------------- health monitor

\* process.memoryUsage(): heapUsed and heapTotal
HeapSamples ==
  {[used |-> 10, total |-> 20], [used |-> 18, total |-> 20],
   [used |-> 19, total |-> 20]}

\* this.metrics.memory.percentage > 90, percentage = used / total * 100
HighMemory(m) == m.used * 100 > 90 * m.total

\* the workflows counted by checkWorkflowMetrics
ActiveWorkflows(wfs) ==
  Cardinality({w \in DOMAIN wfs :
                 wfs[w].status \in {"pending", "queued", "running"}})

\* the jobs counted by checkWorkflowMetrics
PendingJobs(js) == Cardinality({j \in DOMAIN js : js[j].status = "pending"})

Unhealthy(m) == m.database = "unhealthy" \/ m.redis = "unhealthy"

\* where performHealthCheck goes once checkWorkflowMetrics is over
AfterMetrics(m) ==
  IF Unhealthy(m) THEN "sendAlertHealth"
  ELSE IF HighMemory(m.memory) THEN "sendAlertMemory"
  ELSE "idle"

\* where performHealthCheck goes once the first alert is over
AfterHealthAlert(m) ==
  IF HighMemory(m.memory) THEN "sendAlertMemory" ELSE "idle"

AlertRecord(message) == [level |-> "alert", message |-> message]

\* start (the initial check) or a tick of the cron schedule:
\* performHealthCheck begins; persisted counts the alert records this check
\* inserts
performHealthCheck ==
  /\ monitor.pc = "idle"
  /\ monitor.checks < MaxHealthChecks
  /\ monitor' = [monitor EXCEPT !.pc = "checkDatabase",
                                !.checks = @ + 1, !.persisted = 0]
  /\ UNCHANGED << pool, redisClient, jobQueue, boot, system_logs >>
  /\ UNCHANGED orchestration

\* checkDatabase: getPool() returns and SELECT 1 resolves
checkDatabase ==
  /\ monitor.pc = "checkDatabase"
  /\ getPool # DatabaseNotInitialized
  /\ monitor' = [monitor EXCEPT !.pc = "checkRedis", !.database = "healthy"]
  /\ UNCHANGED << pool, redisClient, jobQueue, boot, system_logs >>
  /\ UNCHANGED orchestration

\* checkDatabase: getPool() throws or SELECT 1 rejects (store unreachable)
checkDatabase_Fails ==
  /\ monitor.pc = "checkDatabase"
  /\ monitor' = [monitor EXCEPT !.pc = "checkRedis", !.database = "unhealthy"]
  /\ UNCHANGED << pool, redisClient, jobQueue, boot, system_logs >>
  /\ UNCHANGED orchestration

\* checkRedis: getRedisClient() returns and ping() resolves; then
\* checkSystemResources reads the heap, and checkWorkflowMetrics issues its
\* first count
checkRedis ==
  /\ monitor.pc = "checkRedis"
  /\ getRedisClient # RedisNotInitialized
  /\ \E h \in HeapSamples :
       monitor' = [monitor EXCEPT !.pc = "countWorkflows",
                                  !.redis = "healthy", !.memory = h]
  /\ UNCHANGED << pool, redisClient, jobQueue, boot, system_logs >>
  /\ UNCHANGED orchestration

\* checkRedis: getRedisClient() throws or ping() rejects (cache unreachable)
checkRedis_Fails ==
  /\ monitor.pc = "checkRedis"
  /\ \E h \in HeapSamples :
       monitor' = [monitor EXCEPT !.pc = "countWorkflows",
                                  !.redis = "unhealthy", !.memory = h]
  /\ UNCHANGED << pool, redisClient, jobQueue, boot, system_logs >>
  /\ UNCHANGED orchestration

\* checkWorkflowMetrics, were its first statement to fail the workflows it
\* counts
checkWorkflowMetrics_CountWorkflows_Sweep ==
  /\ monitor.pc = "countWorkflows"
  /\ getPool # DatabaseNotInitialized
  /\ monitor' = [monitor EXCEPT !.pc = "countJobs",
                                !.activeWorkflows = ActiveWorkflows(workflows)]
  /\ workflows' = [w \in DOMAIN workflows |->
                     IF workflows[w].status \in {"pending", "queued", "running"}
                       THEN [workflows[w] EXCEPT !.status = "failed"]
                       ELSE workflows[w]]
  /\ UNCHANGED << jobs, queue, workers, caller, faults, delivered,
                  redeliveries, dispatched, outcomes, callLog >>
  /\ UNCHANGED << pool, redisClient, jobQueue, boot, system_logs >>

\* checkWorkflowMetrics: SELECT COUNT(*) of the workflows that are pending,
\* queued or running
checkWorkflowMetrics_CountWorkflows ==
  /\ monitor.pc = "countWorkflows"
  /\ getPool # DatabaseNotInitialized
  /\ monitor' = [monitor EXCEPT !.pc = "countJobs",
                                !.activeWorkflows = ActiveWorkflows(workflows)]
  /\ UNCHANGED << pool, redisClient, jobQueue, boot, system_logs >>
  /\ UNCHANGED orchestration

\* checkWorkflowMetrics: SELECT COUNT(*) of the pending jobs; then the
\* alert conditions are evaluated
checkWorkflowMetrics_CountJobs ==
  /\ monitor.pc = "countJobs"
  /\ LET m == [monitor EXCEPT !.pendingJobs = PendingJobs(jobs)]
     IN  monitor' = [m EXCEPT !.pc = AfterMetrics(m)]
  /\ UNCHANGED << pool, redisClient, jobQueue, boot, system_logs >>
  /\ UNCHANGED orchestration

\* checkWorkflowMetrics: getPool() throws or a count rejects; the error is
\* logged and the metrics keep their values
checkWorkflowMetrics_Fails ==
  /\ monitor.pc \in {"countWorkflows", "countJobs"}
  /\ monitor' = [monitor EXCEPT !.pc = AfterMetrics(monitor)]
  /\ UNCHANGED << pool, redisClient, jobQueue, boot, system_logs >>
  /\ UNCHANGED orchestration

\* sendAlert('System health check failed'): the INSERT INTO system_logs
\* resolves
sendAlert_Health ==
  /\ monitor.pc = "sendAlertHealth"
  /\ getPool # DatabaseNotInitialized
  /\ system_logs' = Append(system_logs, AlertRecord("System health check failed"))
  /\ monitor' = [monitor EXCEPT !.pc = AfterHealthAlert(monitor),
                                !.persisted = @ + 1]
  /\ UNCHANGED << pool, redisClient, jobQueue, boot >>
  /\ UNCHANGED orchestration

\* sendAlert('High memory usage'): the INSERT INTO system_logs resolves
sendAlert_Memory ==
  /\ monitor.pc = "sendAlertMemory"
  /\ getPool # DatabaseNotInitialized
  /\ system_logs' = Append(system_logs, AlertRecord("High memory usage"))
  /\ monitor' = [monitor EXCEPT !.pc = "idle", !.persisted = @ + 1]
  /\ UNCHANGED << pool, redisClient, jobQueue, boot >>
  /\ UNCHANGED orchestration

\* sendAlert: getPool() throws or the INSERT rejects (store unreachable);
\* the catch logs the error and sendAlert returns normally
sendAlert_Fails ==
  /\ monitor.pc \in {"sendAlertHealth", "sendAlertMemory"}
  /\ monitor' = [monitor EXCEPT !.pc =
                   IF monitor.pc = "sendAlertHealth"
                     THEN AfterHealthAlert(monitor) ELSE "idle"]
  /\ UNCHANGED << pool, redisClient, jobQueue, boot, system_logs >>
  /\ UNCHANGED orchestration

\* ------------------------------------------------------ specifications

CallerContinues ==
  \/ queueWorkflow_SelectWorkflow
  \/ queueWorkflow_InsertJob
  \/ queueWorkflow_UpdateQueued
  \/ caller_processNextJob_Select
  \/ caller_processNextJob_Add
  \/ caller_completeWorkflow

CallerSteps ==
  \/ \E t \in Labels : createWorkflow(t)
  \/ CallerContinues

WorkerSteps ==
  \/ Deliver
  \/ \E r \in workers : processJob_MarkRunning(r)
  \/ \E r \in workers : executeNode(r)
  \/ \E r \in workers : processJob_MarkCompleted(r)
  \/ \E r \in workers : processNextJob_Select(r)
  \/ \E r \in workers : processNextJob_Add(r)
  \/ \E r \in workers : completeWorkflow(r)

\* a step rejects, and processJob's catch block
StepErrorSteps ==
  \/ \E r \in workers : executeNode_Rejects(r)
  \/ \E r \in workers : processJob_MarkFailed(r)
  \/ \E r \in workers : processJob_MarkWorkflowFailed(r)

FaultSteps ==
  \/ createWorkflow_InsertFails
  \/ caller_QueryFails
  \/ caller_AddFails
  \/ \E r \in workers : processJob_QueryFails(r)
  \/ \E r \in workers : processJob_AddFails(r)
  \/ \E r \in workers : processJob_CatchQueryFails(r)

\* createWorkflow calls only, every dispatch message delivered once,
\* steps, queries and enqueues may fail
Next == CallerSteps \/ WorkerSteps \/ StepErrorSteps \/ FaultSteps

Spec == Init /\ [][Next]_vars

\* no rejected query or enqueue, and the queue may deliver a message a
\* second time
NextRedeliver ==
  \/ \E t \in Labels : createWorkflow(t)
  \/ CallerContinues
  \/ WorkerSteps
  \/ StepErrorSteps
  \/ \E m \in delivered : Redeliver(m)

SpecRedeliver == Init /\ [][NextRedeliver]_vars

\* no rejected query or enqueue, and the caller may call queueWorkflow
\* directly, on a present or an absent workflow id
NextRequeue ==
  \/ \E t \in Labels : createWorkflow(t)
  \/ \E w \in 1 .. MaxWorkflows + 1 : queueWorkflow(w)
  \/ CallerContinues
  \/ WorkerSteps
  \/ StepErrorSteps

SpecRequeue == Init /\ [][NextRequeue]_vars

\* no rejected query or enqueue, and the caller may read a workflow's
\* status, on a present or an absent workflow id
StatusSteps ==
  \/ \E w \in 1 .. MaxWorkflowsCalls + 1 : getWorkflowStatus(w)
  \/ getWorkflowStatus_SelectWorkflow
  \/ getWorkflowStatus_SelectJobs
  \/ getWorkflowStatus_End

NextStatus ==
  \/ \E t \in Labels : createWorkflowCalls(t)
  \/ CallerContinues
  \/ StatusSteps
  \/ WorkerSteps
  \/ StepErrorSteps

SpecStatus == Init /\ [][NextStatus]_vars

\* no rejected query or enqueue, and the caller may call queueWorkflow on an
\* id the store does not hold
NextAbsent ==
  \/ \E t \in Labels : createWorkflowCalls(t)
  \/ \E w \in (1 .. MaxWorkflowsCalls + 1) \ DOMAIN workflows :
       queueWorkflow(w)
  \/ CallerContinues
  \/ WorkerSteps
  \/ StepErrorSteps

SpecAbsent == Init /\ [][NextAbsent]_vars

\* No step, query or enqueue fails.  Every awaited promise settles, Bull
\* hands every waiting message to a worker, and executeNode resolves (its
\* timer fires): weak fairness of each continuation.
NextLive ==
  \/ \E t \in Labels : createWorkflowLive(t)
  \/ CallerContinues
  \/ WorkerSteps

SpecLive ==
  /\ Init
  /\ [][NextLive]_vars
  /\ WF_vars(CallerContinues)
  /\ WF_vars(WorkerSteps)

\* A workflow that has ended, completed or failed, is queued again by a
\* direct queueWorkflow call; steps may fail, no query or enqueue fails.
NextAgain ==
  \/ \E t \in Labels : createWorkflowCalls(t)
  \/ \E w \in DOMAIN workflows :
       workflows[w].status \in {"completed", "failed"} /\ queueWorkflow(w)
  \/ CallerContinues
  \/ WorkerSteps
  \/ StepErrorSteps

SpecAgain == Init /\ [][NextAgain]_vars

\* Several workflows side by side: createWorkflow calls only, every message
\* delivered once, steps may fail, no query or enqueue fails.
NextPair ==
  \/ \E t \in Labels : createWorkflowLive(t)
  \/ CallerContinues
  \/ WorkerSteps
  \/ StepErrorSteps

SpecPair == Init /\ [][NextPair]_vars

\* Start-up: the two initialize functions and orchestrator.initialize, called
\* by the environment in any order, from the freshly loaded process.
BootSteps ==
  \/ initializeDatabase
  \/ initializeDatabase_Connect
  \/ initializeDatabase_SelectNow
  \/ initializeDatabase_CreateTables
  \/ initializeDatabase_Fails
  \/ initializeRedis
  \/ initializeRedis_Connect
  \/ initializeRedis_Ping
  \/ initializeRedis_Fails
  \/ orchestrator_initialize

MonitorSteps ==
  \/ performHealthCheck
  \/ checkDatabase
  \/ checkDatabase_Fails
  \/ checkRedis
  \/ checkRedis_Fails
  \/ checkWorkflowMetrics_CountWorkflows
  \/ checkWorkflowMetrics_CountJobs
  \/ checkWorkflowMetrics_Fails
  \/ sendAlert_Health
  \/ sendAlert_Memory
  \/ sendAlert_Fails

NextBoot == BootSteps \/ MonitorSteps

SpecBoot == InitBoot /\ [][NextBoot]_vars

\* the call startSystem makes at its position has not been made yet
DatabaseNotCalled == ~ boot.dbReady /\ boot.dbError = NULL /\ boot.db = "idle"
RedisNotCalled == ~ boot.redisReady /\ boot.redisError = NULL /\ boot.redis = "idle"

\* startSystem from the freshly loaded process: each call is made at its
\* position in startSystem, once; after app.listen the cron schedule may
\* start further health checks; nothing runs after process.exit.
StartSteps ==
  \/ startSystem
  \/ boot.system = "initializeDatabase" /\ DatabaseNotCalled /\ initializeDatabase
  \/ initializeDatabase_Connect
  \/ initializeDatabase_SelectNow
  \/ initializeDatabase_CreateTables
  \/ initializeDatabase_Fails
  \/ startSystem_AfterDatabase
  \/ boot.system = "initializeRedis" /\ RedisNotCalled /\ initializeRedis
  \/ initializeRedis_Connect
  \/ initializeRedis_Ping
  \/ initializeRedis_Fails
  \/ startSystem_AfterRedis
  \/ boot.system = "orchestrator" /\ boot.orchestrator = "none"
       /\ orchestrator_initialize
  \/ startSystem_AfterOrchestrator
  \/ startSystem_Listen

NextStart ==
  \/ StartSteps
  \/ boot.system \in {"healthMonitor", "listening"} /\ MonitorSteps

\* every continuation of startSystem and of the calls it awaits is
\* eventually run
SpecStart == InitBoot /\ [][NextStart]_vars /\ WF_vars(NextStart)

\* The health monitor beside the running orchestrator: a full_listing
\* workflow is created and processed while health checks run; the store and
\* the cache may be unreachable for any statement of the monitor. (The
\* caller's completeWorkflow is left out: it runs only for a plan with no
\* step.)
NextMonitor ==
  \/ createWorkflowMonitor("full_listing")
  \/ queueWorkflow_SelectWorkflow
  \/ queueWorkflow_InsertJob
  \/ queueWorkflow_UpdateQueued
  \/ caller_processNextJob_Select
  \/ caller_processNextJob_Add
  \/ WorkerSteps
  \/ MonitorSteps

SpecMonitor == Init /\ [][NextMonitor]_vars

\* -------------------------------------------------------------- claims

Terminal == {"completed", "failed"}

WorkflowIds == DOMAIN workflows

\* the createWorkflow calls that returned without error
CreatedOK ==
  {callLog[c].workflowId : c \in {d \in DOMAIN callLog :
       callLog[d].op = "createWorkflow" /\ callLog[d].error = NULL}}

\* C1: within one workflow, a job is dispatched or leaves pending only when
\* every job of lower priority is completed or failed; so jobs enter running
\* in ascending priority order, one after the other.
C1_AscendingOrder ==
  \A b \in DOMAIN jobs :
    (b \in dispatched \/ jobs[b].status # "pending") =>
      \A a \in DOMAIN jobs :
        ( /\ jobs[a].workflow_id = jobs[b].workflow_id
          /\ jobs[a].priority < jobs[b].priority )
        => jobs[a].status \in Terminal

\* job 3 of a workflow runs after job 2 completed
C1_Witness ==
  \E a \in DOMAIN jobs : \E b \in DOMAIN jobs :
    /\ jobs[a].workflow_id = jobs[b].workflow_id
    /\ jobs[a].priority = 2 /\ jobs[a].status = "completed"
    /\ jobs[b].priority = 3 /\ jobs[b].status = "running"

\* C2: at most one job of a workflow is running, also when the queue
\* delivers a message more than once to concurrent workers.
C2_SingleFlight ==
  \A w \in WorkflowIds :
    Cardinality({j \in JobsOf(jobs, w) : jobs[j].status = "running"}) <= 1

\* the rows of a workflow whose createWorkflow returned are those of its plan
C3_RowsOfPlan ==
  \A w \in CreatedOK :
    LET plan == getExecutionPlan(workflows[w].name)
        rows == JobsOf(jobs, w)
    IN /\ Cardinality(rows) = plan.length
       /\ {jobs[j].priority : j \in rows} = 1 .. plan.length
       /\ \A j \in rows :
            jobs[j].node_name = ElemAt(plan, jobs[j].priority - 1)

\* a step that adds job rows adds them as pending
C3_InsertedPending ==
  \A j \in DOMAIN jobs' : j \notin DOMAIN jobs => jobs'[j].status = "pending"

\* C3: after a createWorkflow that returned without error the workflow has
\* exactly N job rows, N the length of its type's plan, with priorities
\* 1..N and at priority i the plan's i-th step; and every job row is
\* inserted with status pending.
C3_JobSet == [] C3_RowsOfPlan /\ [][C3_InsertedPending]_vars

\* a full_listing workflow created with its ten rows
C3_Witness ==
  \E w \in CreatedOK :
    /\ workflows[w].name = "full_listing"
    /\ Cardinality(JobsOf(jobs, w)) = 10
    /\ \E j \in JobsOf(jobs, w) :
         jobs[j].priority = 10 /\ jobs[j].node_name = "lead_capture_monitor"

\* the calls on workflow w that ended with an error
FailedCalls(w) ==
  {c \in DOMAIN callLog : callLog[c].workflowId = w /\ callLog[c].error # NULL}

\* workflow w is completed, with completed_at set and every job completed
AllDone(w) ==
  /\ w \in WorkflowIds
  /\ workflows[w].status = "completed"
  /\ workflows[w].completed_at # NULL
  /\ Cardinality(JobsOf(jobs, w)) =
       getExecutionPlan(workflows[w].name).length
  /\ \A j \in JobsOf(jobs, w) : jobs[j].status = "completed"

\* C4: when no step, query or enqueue fails and every continuation is
\* eventually run, each workflow in the store is eventually completed, with
\* completed_at set and all jobs of its plan completed, and stays so (unless
\* its createWorkflow call ended with an error).
C4_EventuallyCompleted ==
  \A w \in 1 .. MaxWorkflowsLive :
    [](w \in WorkflowIds => <>(FailedCalls(w) # {} \/ [] AllDone(w)))

\* a full_listing workflow ran to completion
C4_Witness ==
  \E w \in WorkflowIds :
    /\ workflows[w].name = "full_listing"
    /\ AllDone(w)
    /\ FailedCalls(w) = {}

\* C5: once processJob has ended with the error of the step of job k, job k
\* is failed with that (non-empty) error, the jobs of lower priority are
\* completed, the jobs of higher priority are pending and no message has
\* ever named them, and the workflow is failed.
C5_FailureHalts ==
  \A o \in outcomes :
    o.error = StepError =>
      LET k == o.jobId
          w == jobs[k].workflow_id
      IN /\ jobs[k].status = "failed"
         /\ jobs[k].error \notin {NULL, ""}
         /\ workflows[w].status = "failed"
         /\ \A j \in JobsOf(jobs, w) :
              /\ jobs[j].priority < jobs[k].priority
                   => jobs[j].status = "completed"
              /\ jobs[j].priority > jobs[k].priority
                   => /\ jobs[j].status = "pending"
                      /\ j \notin dispatched
                      /\ \A q \in DOMAIN queue : queue[q].jobId # j

\* the step of job 2 failed, job 3 of the workflow is left pending
C5_Witness ==
  \E o \in outcomes :
    /\ o.error = StepError
    /\ jobs[o.jobId].priority = 2
    /\ jobs[o.jobId].status = "failed"
    /\ \E j \in JobsOf(jobs, jobs[o.jobId].workflow_id) :
         jobs[j].priority = 3 /\ jobs[j].status = "pending"

\* the status of job j stays, or goes pending to running, or running to
\* completed or failed
C6_JobTransition(j) ==
  \/ jobs'[j].status = jobs[j].status
  \/ jobs[j].status = "pending" /\ jobs'[j].status = "running"
  \/ jobs[j].status = "running" /\ jobs'[j].status \in Terminal

\* C6: a job's status goes pending, running, then completed or failed, and a
\* completed or failed job never changes status again, whatever query or
\* enqueue fails.
C6_JobStatusOnce == [][\A j \in DOMAIN jobs : C6_JobTransition(j)]_vars

\* the statuses of all rows, and the queue
Statuses ==
  << [j \in DOMAIN jobs |-> jobs[j].status],
     [w \in DOMAIN workflows |-> workflows[w].status],
     queue, dispatched >>

\* C7: a processJob invocation for a second delivery of the message of an
\* already completed job changes no job status, no workflow status and
\* enqueues nothing.
C7_RedeliveryNoOp ==
  [][\A r \in workers :
       (r.again /\ r \notin workers') => Statuses' = Statuses]_vars

\* the order of the workflow statuses
Rank(status) ==
  CASE status = "pending" -> 0
    [] status = "queued" -> 1
    [] status = "running" -> 2
    [] status \in Terminal -> 3

\* the status of workflow w does not move back, nor out of a final one
C8_WorkflowTransition(w) ==
  /\ Rank(workflows'[w].status) >= Rank(workflows[w].status)
  /\ workflows[w].status \in Terminal
       => workflows'[w].status = workflows[w].status

\* C8: a workflow's status only moves forward along pending, queued, then
\* completed or failed; completed and failed are final, whatever step,
\* query or enqueue fails.
C8_WorkflowForward ==
  [][\A w \in DOMAIN workflows : C8_WorkflowTransition(w)]_vars

\* a query or enqueue was rejected and a ten-step workflow ended failed
C8_Witness ==
  /\ faults > 0
  /\ \E w \in WorkflowIds :
       /\ workflows[w].status = "failed"
       /\ \E j \in JobsOf(jobs, w) : jobs[j].priority = 10
       /\ \A j \in JobsOf(jobs, w) : jobs[j].status \in Terminal

\* the calls on workflow w that have ended
EndedCalls(w) == {c \in DOMAIN callLog : callLog[c].workflowId = w}

\* C9: when two queueWorkflow calls on a workflow (the one createWorkflow
\* makes and a direct one) have returned, the workflow has 2N job rows, N the
\* length of its plan, each priority 1..N on exactly two rows.
C9_TwiceDoubles ==
  \A w \in WorkflowIds :
    ( /\ Cardinality(EndedCalls(w)) = 2
      /\ FailedCalls(w) = {}
      /\ caller.workflowId # w )
    => LET n == getExecutionPlan(workflows[w].name).length
       IN /\ Cardinality(JobsOf(jobs, w)) = 2 * n
          /\ \A p \in 1 .. n :
               Cardinality({j \in JobsOf(jobs, w) : jobs[j].priority = p}) = 2
          /\ \A j \in JobsOf(jobs, w) : jobs[j].priority \in 1 .. n

\* the second call ran while the first job set was in progress
C9_Witness ==
  \E w \in WorkflowIds :
    /\ Cardinality(EndedCalls(w)) = 2
    /\ FailedCalls(w) = {}
    /\ workflows[w].name = "full_listing"
    /\ Cardinality(JobsOf(jobs, w)) = 20
    /\ jobs[1].status = "completed"
    /\ jobs[2].status = "running"
    /\ jobs[11].status = "pending"

\* C10: every label other than full_listing and test resolves to the plan
\* of test: the plan queueWorkflow holds for such a workflow is
\* ["test_node"].
C10_FallbackPlan ==
  ( /\ caller.pc \in {"qwInsertJob", "qwUpdateQueued"}
    /\ workflows[caller.workflowId].name \notin {"full_listing", "test"} )
  => caller.plan = ArrayValue(<< "test_node" >>)

\* a value is a non-empty sequence of step names
StepSequence(v) ==
  /\ v.kind = "array"
  /\ v.length >= 1
  /\ \A i \in 0 .. v.length - 1 : ElemAt(v, i) # UNDEFINED

\* the plan queueWorkflow holds is the one value of its workflow's label,
\* and a non-empty step sequence
C11_HeldPlan ==
  caller.pc \in {"qwInsertJob", "qwUpdateQueued"} =>
    /\ caller.plan = getExecutionPlan(workflows[caller.workflowId].name)
    /\ StepSequence(caller.plan)

\* the step that calls getExecutionPlan changes no row and no message
C11_CallChangesNothing ==
  (caller.pc = "qwSelectWorkflow" /\ caller'.pc # "qwSelectWorkflow") =>
    UNCHANGED << workflows, jobs, queue >>

\* C11: getExecutionPlan is deterministic and pure: whatever the state of
\* the store and the queue, the call returns for a label the same non-empty
\* ordered step sequence, and the call changes no state.
C11_PurePlan == [] C11_HeldPlan /\ [][C11_CallChangesNothing]_vars

\* C12: after a createWorkflow that failed on a store write, the store holds
\* no workflow row of that call with only part of its job set, nor one left
\* pending.
C12_NoHalfCreated ==
  \A c \in DOMAIN callLog :
    ( /\ callLog[c].op = "createWorkflow"
      /\ callLog[c].error \in {StoreError, NotNullViolation}
      /\ callLog[c].workflowId \in DOMAIN workflows )
    => /\ Cardinality(JobsOf(jobs, callLog[c].workflowId)) =
            getExecutionPlan(workflows[callLog[c].workflowId].name).length
       /\ workflows[callLog[c].workflowId].status # "pending"

\* what the processJob invocations ending in this step raise or return
Raised == outcomes' \ outcomes

\* invocation r ends in this step
Ends(r) == r \in workers /\ workers' = workers \ {r}

\* C13: a processJob whose step failed ends by raising the step's error, and
\* only with the job and the workflow both recorded as failed (unless a
\* write of the catch block is itself rejected, whose error it then raises);
\* a processJob whose step succeeded and whose sequence advanced returns
\* without error.
C13_RaisedAfterRecorded ==
  [][\A r \in workers : Ends(r) =>
       /\ r.err = StepError =>
            \/ /\ Raised = {[jobId |-> r.jobId, error |-> StepError]}
               /\ jobs'[r.jobId].status = "failed"
               /\ workflows'[r.workflowId].status = "failed"
            \/ /\ Raised = {[jobId |-> r.jobId, error |-> StoreError]}
               /\ faults' = faults + 1
       /\ r.err = NULL =>
            /\ Raised = {[jobId |-> r.jobId, error |-> NULL]}
            /\ jobs'[r.jobId].status = "completed"]_vars

\* the step of job 2 failed and was raised, after job 1 returned a result
C13_Witness ==
  /\ [jobId |-> 1, error |-> NULL] \in outcomes
  /\ [jobId |-> 2, error |-> StepError] \in outcomes
  /\ jobs[2].status = "failed"
  /\ workflows[jobs[2].workflow_id].status = "failed"

\* workflow w ends only from running, and is running while a job of it is
C19_ThroughRunning(w) ==
  /\ (workflows'[w].status \in Terminal /\ workflows[w].status \notin Terminal)
       => workflows[w].status = "running"
  /\ (\E j \in JobsOf(jobs, w) : jobs[j].status = "running")
       => workflows[w].status = "running"

\* C19: a workflow becomes completed or failed only from status running,
\* and its status is running while one of its jobs is running.
C19_RunningBeforeEnd ==
  [][\A w \in DOMAIN workflows : C19_ThroughRunning(w)]_vars

\* a message waits in the queue only for a job that is still pending
C20_QueuedStaysPending ==
  \A q \in DOMAIN queue : jobs[queue[q].jobId].status = "pending"

\* a step that enqueues appends one message, that of the pending job of
\* lowest priority of its workflow, and changes no row
C20_EnqueueStep ==
  Len(queue') > Len(queue) =>
    /\ Len(queue') = Len(queue) + 1
    /\ SubSeq(queue', 1, Len(queue)) = queue
    /\ LET m == queue'[Len(queue')]
       IN /\ m.jobId \in SelectNextPending(jobs, m.workflowId)
          /\ m.nodeName = jobs[m.jobId].node_name
          /\ jobs[m.jobId].workflow_id = m.workflowId
    /\ UNCHANGED << workflows, jobs >>

\* C20: processNextJob, when its workflow has a pending job, enqueues exactly
\* one message {jobId, workflowId, nodeName} of the pending job of lowest
\* priority and changes no job or workflow row; the job stays pending until
\* processJob takes the message.
C20_DispatchOnly == [] C20_QueuedStaysPending /\ [][C20_EnqueueStep]_vars

\* the message of job 3 of a workflow waits while the job is pending
C20_Witness ==
  \E q \in DOMAIN queue :
    /\ jobs[queue[q].jobId].priority = 3
    /\ jobs[queue[q].jobId].status = "pending"
    /\ queue[q].nodeName = "competitive_analysis_engine"

\* a step of a queueWorkflow call on an id the store does not hold
AbsentQueueStep ==
  /\ caller' # caller
  /\ \/ caller.op = "queueWorkflow" /\ caller.workflowId \notin DOMAIN workflows
     \/ caller'.op = "queueWorkflow" /\ caller'.workflowId \notin DOMAIN workflows

\* C14: queueWorkflow on a workflow id the store does not hold ends with the
\* not-found error, and no step of it inserts a job row, updates a workflow
\* row or enqueues a message.
C14_AbsentNotFound ==
  [][AbsentQueueStep =>
       /\ UNCHANGED << workflows, jobs, queue, dispatched >>
       /\ caller.pc = "qwSelectWorkflow" =>
            /\ caller' = IdleCaller
            /\ callLog' = Append(callLog, [op |-> "queueWorkflow",
                                           workflowId |-> caller.workflowId,
                                           error |-> NotFound])]_vars

\* an absent id was queued and refused while a workflow's job was running
C14_Witness ==
  /\ \E c \in DOMAIN callLog :
       /\ callLog[c].op = "queueWorkflow"
       /\ callLog[c].error = NotFound
       /\ callLog[c].workflowId \notin DOMAIN workflows
  /\ \E j \in DOMAIN jobs : jobs[j].status = "running"

\* a step of a getWorkflowStatus call
StatusStep ==
  /\ caller' # caller
  /\ caller.op = "getWorkflowStatus" \/ caller'.op = "getWorkflowStatus"

\* the value built from the two SELECTs: the workflow's row as read (its
\* status not later than the current one) and all its job rows as they are,
\* in ascending priority
StatusValue(v, w) ==
  /\ v.workflow.name = workflows[w].name
  /\ Rank(v.workflow.status) <= Rank(workflows[w].status)
  /\ Len(v.jobs) = Cardinality(JobsOf(jobs, w))
  /\ {v.jobs[k].id : k \in DOMAIN v.jobs} = JobsOf(jobs, w)
  /\ \A k \in DOMAIN v.jobs : v.jobs[k].row = jobs[v.jobs[k].id]
  /\ \A k \in DOMAIN v.jobs : \A l \in DOMAIN v.jobs :
       k < l => v.jobs[k].row.priority <= v.jobs[l].row.priority

\* C15: getWorkflowStatus is read-only: no step of it changes a workflow
\* row, a job row or the queue; for a workflow in the store it returns the
\* workflow's row with all its jobs in ascending priority order, for an id
\* the store does not hold it ends with the not-found error.
C15_StatusReadOnly ==
  [][StatusStep =>
       /\ UNCHANGED << workflows, jobs, queue, dispatched, callLog >>
       /\ (caller.pc = "gwsSelectWorkflow"
             /\ caller.workflowId \notin DOMAIN workflows)
            => /\ caller'.pc = "gwsEnd"
               /\ caller'.err = NotFound
               /\ caller'.ret = << >>
       /\ caller.pc = "gwsSelectJobs"
            => /\ caller'.pc = "gwsEnd"
               /\ caller'.err = NULL
               /\ caller'.ret # << >>
               /\ StatusValue(caller'.ret[1], caller.workflowId)]_vars

\* the status of a ten-step workflow is returned while its job 2 runs
C15_Witness ==
  /\ caller.pc = "gwsEnd"
  /\ caller.err = NULL
  /\ Len(caller.ret[1].jobs) = 10
  /\ caller.ret[1].jobs[1].row.status = "completed"
  /\ caller.ret[1].jobs[2].row.status = "running"
  /\ caller.ret[1].jobs[10].row.priority = 10

\* a health check ends in this step
HealthCheckEnds == monitor.pc # "idle" /\ monitor'.pc = "idle"

\* C16: whenever a health check has found the store unreachable, the cache
\* unreachable or the heap more than 90% used, that health check has
\* inserted an alert record into system_logs by the time it ends.
C16_AlertPersisted ==
  [][HealthCheckEnds /\ (Unhealthy(monitor') \/ HighMemory(monitor'.memory))
       => monitor'.persisted > 0]_vars

\* C17: as long as no initializeDatabase call has returned normally, getPool
\* raises not-initialized; as long as no initializeRedis call has returned
\* normally, getRedisClient and getJobQueue raise not-initialized.
C17_NotInitializedUntilReady ==
  /\ ~ boot.dbReady => getPool = DatabaseNotInitialized
  /\ ~ boot.redisReady => /\ getRedisClient = RedisNotInitialized
                          /\ getJobQueue = QueueNotInitialized

\* a step of the health monitor
MonitorStep == monitor' # monitor \/ system_logs' # system_logs

\* C18: no step of the health monitor changes a workflow row, a job row or
\* the queue (nor a module handle); what it writes is system_logs.
C18_MonitorLeavesOrchestration ==
  [][MonitorStep => UNCHANGED << workflows, jobs, queue, workers,
                                 pool, redisClient, jobQueue >>]_vars

\* a health check has counted a live workflow and inserted an alert while a
\* job of that workflow was in the table
C18_Witness ==
  /\ system_logs # << >>
  /\ monitor.activeWorkflows > 0
  /\ monitor.pc = "idle"
  /\ jobs # << >>

\* every job of workflow w is completed
AllJobsCompleted(w) ==
  \A j \in JobsOf(jobs, w) : jobs[j].status = "completed"

\* workflow w becomes completed in this step
BecomesCompleted(w) ==
  /\ w \in DOMAIN workflows
  /\ workflows[w].status # "completed"
  /\ workflows'[w].status = "completed"

\* C21: a workflow whose status is completed has only completed jobs, and a
\* workflow is marked completed only when none of its jobs is pending
\* (queueWorkflow once per workflow, every message delivered once).
C21_CompletedMeansAllCompleted ==
  /\ [] (\A w \in WorkflowIds :
           workflows[w].status = "completed" => AllJobsCompleted(w))
  /\ [][\A w \in WorkflowIds :
          BecomesCompleted(w) => PendingOf(jobs, w) = {}]_vars

\* a full_listing workflow is completed with its ten jobs
C21_Witness ==
  \E w \in WorkflowIds :
    /\ workflows[w].status = "completed"
    /\ Cardinality(JobsOf(jobs, w)) = 10

\* the workflow has failed or has a failed job
HasFailed(w) ==
  \/ workflows[w].status = "failed"
  \/ \E j \in JobsOf(jobs, w) : jobs[j].status = "failed"

\* C22: a step that enqueues a dispatch message names a job no earlier
\* message has named, of a workflow that has not failed and has no failed
\* job (queueWorkflow once per workflow, every message delivered once).
C22_NeverRequeued ==
  [][Len(queue') > Len(queue) =>
       LET m == queue'[Len(queue')]
       IN  /\ m.jobId \notin dispatched
           /\ ~ HasFailed(m.workflowId)]_vars

\* job 2 and its workflow are failed, jobs 1 and 2 were dispatched, and
\* nothing is queued or running for the workflow
C22_Witness ==
  /\ DOMAIN jobs = 1 .. 10
  /\ jobs[2].status = "failed"
  /\ workflows[jobs[2].workflow_id].status = "failed"
  /\ dispatched = {1, 2}
  /\ queue = << >>
  /\ workers = {}

\* a processJob invocation awaits the step of job j
AwaitingStep(j) == \E r \in workers : r.jobId = j /\ r.pc = "executeNode"

\* the messages and the other invocations of the workflow of job j
InFlightBeside(j) ==
  {i \in 1 .. Len(queue) : queue[i].workflowId = jobs[j].workflow_id}
  \cup {r \in workers : r.workflowId = jobs[j].workflow_id /\ r.jobId # j}

\* while the step of job j has not returned: the job is running, its workflow
\* has not ended, and no message or invocation of the workflow is in flight
C23_WhileAwaiting ==
  \A j \in DOMAIN jobs :
    AwaitingStep(j) =>
      /\ jobs[j].status = "running"
      /\ workflows[jobs[j].workflow_id].status \notin Terminal
      /\ InFlightBeside(j) = {}

\* a step during which the step of job j does not return changes no row of
\* the job's workflow and enqueues nothing for it; the await is left only by
\* the step returning a result or an error
C23_OnlyTheStepMovesOn ==
  \A j \in DOMAIN jobs :
    AwaitingStep(j) =>
      IF AwaitingStep(j)'
        THEN /\ workflows'[jobs[j].workflow_id] = workflows[jobs[j].workflow_id]
             /\ JobsOf(jobs', jobs[j].workflow_id)
                  = JobsOf(jobs, jobs[j].workflow_id)
             /\ \A o \in JobsOf(jobs, jobs[j].workflow_id) : jobs'[o] = jobs[o]
        ELSE \E r \in workers' :
               /\ r.jobId = j
               /\ \/ r.pc = "markCompleted"
                  \/ r.pc = "markFailed" /\ r.err = StepError

\* C23: as long as the step of a job has not returned, the job stays running,
\* no later job of its workflow is dispatched and the workflow is neither
\* completed nor failed; no step of the orchestrator ends the wait.
C23_StuckStepStaysRunning ==
  [] C23_WhileAwaiting /\ [][C23_OnlyTheStepMovesOn]_vars

\* the step of job 3 has not returned; jobs 4 to 10 are pending
C23_Witness ==
  /\ DOMAIN jobs = 1 .. 10
  /\ AwaitingStep(3)
  /\ \A j \in 4 .. 10 : jobs[j].status = "pending"
  /\ dispatched = {1, 2, 3}

\* the workflows the invocations that move in this step act for
ActingFor ==
  {r.workflowId : r \in workers \ workers'}
  \cup (IF caller' # caller THEN {caller.workflowId, caller'.workflowId} ELSE {})

\* the row or a job row of workflow w changes in this step
RowsChange(w) ==
  \/ workflows'[w] # workflows[w]
  \/ \E j \in JobsOf(jobs, w) : jobs'[j] # jobs[j]

\* C24: a step of processJob, processNextJob or completeWorkflow (or of the
\* caller's queueWorkflow) changes the workflow row and the job rows only of
\* the workflow it acts for; jobs of two workflows may be running together.
C24_WorkflowsIndependent ==
  [][\A w \in WorkflowIds : RowsChange(w) => w \in ActingFor]_vars

\* jobs of two workflows are running at the same time, each with its
\* processJob at the step
C24_Witness ==
  \E a \in DOMAIN jobs : \E b \in DOMAIN jobs :
    /\ jobs[a].workflow_id # jobs[b].workflow_id
    /\ jobs[a].status = "running" /\ jobs[b].status = "running"
    /\ AwaitingStep(a) /\ AwaitingStep(b)

\* the errors of a rejected store query and a rejected enqueue
Rejections == {StoreError, QueueError}

\* a step in which a query or an enqueue is rejected: the caller's call ends
\* with that error, or the processJob invocation enters its catch block with
\* it, or (a rejected write of the catch block) ends with it
C25_RejectionIsRaised ==
  faults' = faults + 1 =>
    \/ /\ Len(callLog') = Len(callLog) + 1
       /\ callLog'[Len(callLog')].error \in Rejections
       /\ caller' = IdleCaller
    \/ \E r \in workers \ workers' :
         \/ \E q \in workers' \ workers :
              q.jobId = r.jobId /\ q.pc = "markFailed" /\ q.err \in Rejections
         \/ /\ workers' = workers \ {r}
            /\ [jobId |-> r.jobId, error |-> StoreError] \in Raised

\* a processJob invocation holding an error keeps one, and ends raising one
C25_ErrorIsKept ==
  \A r \in workers \ workers' :
    r.err # NULL =>
      \/ \E q \in workers' \ workers : q.jobId = r.jobId /\ q.err = r.err
      \/ /\ workers' = workers \ {r}
         /\ \E o \in Raised : o.jobId = r.jobId /\ o.error # NULL

\* C25: every rejected store query or enqueue inside createWorkflow,
\* queueWorkflow, processNextJob, processJob or completeWorkflow makes the
\* operation end with an error raised to its caller (to the queue for
\* processJob); none ends as a success.
C25_FailuresPropagate ==
  [][C25_RejectionIsRaised /\ C25_ErrorIsKept]_vars

\* an enqueue was rejected inside processJob, which ended raising that error
C25_Witness ==
  /\ faults > 0
  /\ \E o \in outcomes : o.error = QueueError

\* the messages in the queue that name workflow w
MessagesOf(w) == {i \in 1 .. Len(queue) : queue[i].workflowId = w}

\* a pending workflow has only pending jobs and no message in the queue
C26_PendingUndispatched ==
  \A w \in WorkflowIds :
    workflows[w].status = "pending" =>
      /\ \A j \in JobsOf(jobs, w) : jobs[j].status = "pending"
      /\ MessagesOf(w) = {}
      /\ \A r \in workers : r.workflowId # w

\* a message is enqueued only for a workflow that is no longer pending and
\* whose job rows are those of its plan
C26_EnqueueAfterQueued ==
  Len(queue') > Len(queue) =>
    LET w == queue'[Len(queue')].workflowId
    IN  /\ workflows[w].status # "pending"
        /\ Cardinality(JobsOf(jobs, w))
             = getExecutionPlan(workflows[w].name).length

\* C26: a workflow is marked queued, with its whole job set inserted, before
\* any of its jobs is dispatched: while its status is pending all its jobs
\* are pending and no dispatch message of it is in the queue.
C26_QueuedBeforeDispatch ==
  [] C26_PendingUndispatched /\ [][C26_EnqueueAfterQueued]_vars

\* the ten jobs of a workflow are inserted and the workflow is still pending
C26_Witness ==
  \E w \in WorkflowIds :
    /\ workflows[w].status = "pending"
    /\ Cardinality(JobsOf(jobs, w)) = 10
    /\ caller.pc = "qwUpdateQueued"

\* an invocation is at completeWorkflow's UPDATE for workflow w
AtCompleteWorkflow(w) ==
  \/ caller.pc = "completeWorkflow" /\ caller.workflowId = w
  \/ \E r \in workers : r.pc = "completeWorkflow" /\ r.workflowId = w

\* a completed workflow has its completed_at
C27_CompletedHasTimestamp ==
  \A w \in WorkflowIds :
    workflows[w].status = "completed" => workflows[w].completed_at # NULL

\* a row is inserted with completed_at null, and completed_at changes only
\* in completeWorkflow's UPDATE; marking failed or queued leaves it
C27_WrittenByCompleteWorkflow ==
  \A w \in DOMAIN workflows' :
    IF w \notin DOMAIN workflows
      THEN workflows'[w].completed_at = NULL
      ELSE workflows'[w].completed_at # workflows[w].completed_at =>
             /\ AtCompleteWorkflow(w)
             /\ workflows'[w].status = "completed"

StartRank(position) ==
  CASE position = "loaded" -> 0
    [] position = "initializeDatabase" -> 1
    [] position = "initializeRedis" -> 2
    [] position = "orchestrator" -> 3
    [] position = "healthMonitor" -> 4
    [] position = "listening" -> 5
    [] OTHER -> 6

\* the step startSystem is at has succeeded
StepSucceeded ==
  CASE boot.system = "initializeDatabase" -> boot.dbReady
    [] boot.system = "initializeRedis" -> boot.redisReady
    [] boot.system = "orchestrator" -> boot.orchestrator = "initialized"
    [] boot.system = "healthMonitor" -> monitor.checks > 0 /\ monitor.pc = "idle"
    [] OTHER -> boot.system = "loaded"

\* a step of startSystem has failed
StepFailed ==
  \/ boot.db = "idle" /\ boot.dbError # NULL
  \/ boot.redis = "idle" /\ boot.redisError # NULL
  \/ boot.orchestrator = "failed"

\* each step is begun only after the steps before it succeeded, the server
\* listens only after all of them, and never after a failure
C28_EachAfterTheLast ==
  /\ RedisNotCalled \/ boot.dbReady
  /\ boot.orchestrator = "none" \/ (boot.dbReady /\ boot.redisReady)
  /\ monitor.checks = 0 \/ boot.orchestrator = "initialized"
  /\ boot.system = "listening" =>
       /\ boot.dbReady /\ boot.redisReady
       /\ boot.orchestrator = "initialized"
       /\ monitor.checks > 0
       /\ ~ StepFailed
  /\ boot.system = "exit" <=> boot.exitCode = << 1 >>
  /\ boot.exitCode \in {<< >>, << 1 >>}

\* startSystem moves to the next position when its step has succeeded, or
\* to process.exit(1) when it has failed
C28_InOrder ==
  boot'.system # boot.system =>
    IF boot'.system = "exit"
      THEN StepFailed /\ boot'.exitCode = << 1 >>
      ELSE /\ StepSucceeded
           /\ StartRank(boot'.system) = StartRank(boot.system) + 1

\* C28: startSystem runs database initialization, queue/cache
\* initialization, orchestrator initialization, health monitor start and
\* listen in this order, each after the one before succeeded; a failed step
\* ends the process with exit code 1 and the server never listens.
C28_StartupOrder ==
  /\ [] C28_EachAfterTheLast
  /\ [][C28_InOrder]_vars
  /\ (StepFailed ~> boot.exitCode = << 1 >>)
  /\ [] (StepFailed => [] (boot.system # "listening"))

\* the server listens, all four steps before it done
C28_Witness ==
  /\ boot.system = "listening"
  /\ boot.dbReady /\ boot.redisReady
  /\ boot.orchestrator = "initialized"
  /\ monitor.checks > 0

====
